---- MODULE Spec2Model ----
(***************************************************************************)
(* Model of service.py: the supervisor (main), the DisplayThread, the      *)
(* ButtonMonitorThread, the gpiozero callback thread that runs the button  *)
(* handlers, the termination signal handler and the wall clock.            *)
(*                                                                         *)
(* Time is kept as ages: online_check_age is time.time() minus             *)
(* last_online_check and app_switch_age is time.time() minus               *)
(* last_app_switch, each saturating one second above the period it is      *)
(* compared with.                                                          *)
(***************************************************************************)
EXTENDS Integers, Sequences, FiniteSets, TLC

VARIABLES
    pcMain,            \* position of main()
    success,           \* main's local "success"
    exitStatus,        \* process exit status, NoExit while main runs
    kill_now,          \* GracefulKiller.kill_now
    pcBtn,             \* position of ButtonMonitorThread.run
    pcGpio,            \* position of the gpiozero callback thread
    pcDisp,            \* position of DisplayThread.run
    exc,               \* an exception is propagating in DisplayThread
    rpi,               \* the local "rpi" of DisplayThread.run
    nbExit,            \* number of rpi.module_exit calls
    cycleOps,          \* epd calls made since the current loop iteration began
    current_app,       \* DisplayThread.current_app
    current_screen_per_app,           \* DisplayThread.current_screen_per_app
    metainfo,          \* DisplayThread.metainfo
    force_update,      \* DisplayThread.force_update
    last_image,        \* DisplayThread.last_image
    online_check_age,  \* age of DisplayThread.last_online_check, NoCheck if None
    app_switch_age,    \* age of DisplayThread.last_app_switch
    image,             \* the local "image" of update()
    reqApp,            \* first argument evaluated for download_recent_image
    reqKey,            \* current_app as read for the .get of the second argument
    navTmp,            \* per thread: value held between two steps of a switch_to_*
    serverInfo,        \* nb_screens per app in the server's info.json
    infoOK,            \* a 200 answer to info.json has been received
    refetched,         \* info.json was requested again after a 200 answer
    navSinceStart,     \* a switch_to_* completed since should_update last read the flag
    pendingNav         \* a switch_to_* completed and no update() began reading after it

vars == <<pcMain, success, exitStatus, kill_now, pcBtn, pcGpio, pcDisp, exc, rpi,
          nbExit, cycleOps, current_app, current_screen_per_app, metainfo, force_update,
          last_image, online_check_age, app_switch_age, image, reqApp, reqKey,
          navTmp, serverInfo, infoOK, refetched, navSinceStart,
          pendingNav>>

mainVars == <<pcMain, success, exitStatus>>
btnVars == <<pcBtn>>
hwVars == <<rpi, nbExit, cycleOps>>
navVars == <<current_app, current_screen_per_app, force_update, navTmp>>
timeVars == <<online_check_age, app_switch_age>>
updVars == <<last_image, image, reqApp, reqKey>>
srvVars == <<serverInfo, infoOK, refetched, metainfo>>
obsVars == <<navSinceStart, pendingNav>>

----------------------------------------------------------------------------
(* Program constants and the values the environment is drawn from.         *)

UpdatePeriod == 60
SwitchPeriod == 3600
NoExit == -1
NoCheck == -1
\* Python's None, for an image and for the metainfo document.
None == <<>>

\* Each bitmap is its size and its pixel content.
Bitmaps == {<<1, 0>>, <<1, 1>>, <<2, 0>>}

\* info.json documents the server may hold: nb_screens of each app.
Topologies == {<<1, 3>>, <<2, 2>>, <<1>>}

\* The document served in the scenarios of the specification.
ServedInfo == <<1, 3>>

\* HTTP status codes the server answers with.
Statuses == {200, 500}

\* Seconds the clock may advance in one step.
Delays == {SwitchPeriod \div 2, SwitchPeriod}

Threads == {"disp", "gpio"}

Min(a, b) == IF a < b THEN a ELSE b

----------------------------------------------------------------------------
(* dict helpers                                                            *)

Get(d, k, default) == IF k \in DOMAIN d THEN d[k] ELSE default

Put(d, k, v) == [x \in (DOMAIN d) \cup {k} |-> IF x = k THEN v ELSE d[x]]

EmptyDict == [x \in {} |-> 0]

----------------------------------------------------------------------------
(* Initial state: main() has been entered, nothing constructed yet.        *)

Init ==
    /\ pcMain = "setup"
    /\ success = TRUE
    /\ exitStatus = NoExit
    /\ kill_now = FALSE
    /\ pcBtn = "new"
    /\ pcGpio = "idle"
    /\ pcDisp = "new"
    /\ exc = FALSE
    /\ rpi = "unbound"
    /\ nbExit = 0
    /\ cycleOps = <<>>
    /\ current_app = 0
    /\ current_screen_per_app = EmptyDict
    /\ metainfo = None
    /\ force_update = FALSE
    /\ last_image = None
    /\ online_check_age = NoCheck
    /\ app_switch_age = 0
    /\ image = None
    /\ reqApp = 0
    /\ reqKey = 0
    /\ navTmp = [t \in Threads |-> 0]
    /\ serverInfo = ServedInfo
    /\ infoOK = FALSE
    /\ refetched = FALSE
    /\ navSinceStart = FALSE
    /\ pendingNav = FALSE

----------------------------------------------------------------------------
(* GracefulKiller and the clock                                            *)

\* exit_gracefully: SIGINT or SIGTERM is delivered while the process lives.
Signal ==
    /\ exitStatus = NoExit
    /\ kill_now' = TRUE
    /\ UNCHANGED <<mainVars, btnVars, pcGpio, pcDisp, exc, hwVars, navVars,
                   timeVars, updVars, srvVars, obsVars>>

\* The wall clock advances by d seconds.
Tick ==
    /\ exitStatus = NoExit
    /\ \E d \in Delays :
        /\ online_check_age' = IF online_check_age = NoCheck THEN NoCheck
                               ELSE Min(online_check_age + d, UpdatePeriod + 1)
        /\ app_switch_age' = Min(app_switch_age + d, SwitchPeriod + 1)
    /\ UNCHANGED <<mainVars, kill_now, btnVars, pcGpio, pcDisp, exc, hwVars,
                   navVars, updVars, srvVars, obsVars>>

----------------------------------------------------------------------------
(* main(): the supervisor                                                  *)

IsAlive(pc) == pc \notin {"new", "stopped", "errored"}

\* logging.basicConfig and load_config; an exception goes to "service crashed".
MainSetup ==
    /\ pcMain = "setup"
    /\ \E ok \in BOOLEAN :
        IF ok THEN /\ pcMain' = "start_display"
                   /\ UNCHANGED success
        ELSE /\ pcMain' = "exit"
             /\ success' = FALSE
    /\ UNCHANGED <<exitStatus, kill_now, btnVars, pcGpio, pcDisp, exc, hwVars,
                   navVars, timeVars, updVars, srvVars, obsVars>>

\* DisplayThread(...) sets last_app_switch = time.time(); start() runs run().
MainStartDisplay ==
    /\ pcMain = "start_display"
    /\ pcMain' = "start_button"
    /\ pcDisp' = "init_rpi"
    /\ app_switch_age' = 0
    /\ UNCHANGED <<success, exitStatus, kill_now, btnVars, pcGpio, exc, hwVars,
                   navVars, online_check_age, updVars, srvVars, obsVars>>

\* ButtonMonitorThread(...) opens the two gpiozero Buttons, which may raise;
\* the exception skips the supervisory loop and the joins.
MainStartButton ==
    /\ pcMain = "start_button"
    /\ \E ok \in BOOLEAN :
        IF ok THEN /\ pcMain' = "check"
                   /\ pcBtn' = "register"
                   /\ UNCHANGED success
        ELSE /\ pcMain' = "exit"
             /\ success' = FALSE
             /\ UNCHANGED pcBtn
    /\ UNCHANGED <<exitStatus, kill_now, pcGpio, pcDisp, exc, hwVars, navVars,
                   timeVars, updVars, srvVars, obsVars>>

\* while not killer.kill_now
MainCheck ==
    /\ pcMain = "check"
    /\ pcMain' = IF kill_now THEN "join_display" ELSE "sleep"
    /\ UNCHANGED <<success, exitStatus, kill_now, btnVars, pcGpio, pcDisp, exc,
                   hwVars, navVars, timeVars, updVars, srvVars, obsVars>>

\* time.sleep(1)
MainSleep ==
    /\ pcMain = "sleep"
    /\ pcMain' = "poll_display"
    /\ UNCHANGED <<success, exitStatus, kill_now, btnVars, pcGpio, pcDisp, exc,
                   hwVars, navVars, timeVars, updVars, srvVars, obsVars>>

\* One iteration of "for thread in all_threads": the is_alive test of a thread
\* whose position is pc, then on to the position after.
MainPoll(here, pc, after) ==
    /\ pcMain = here
    /\ pcMain' = after
    /\ IF IsAlive(pc) THEN UNCHANGED <<kill_now, success>>
       ELSE /\ kill_now' = TRUE
            /\ success' = FALSE
    /\ UNCHANGED <<exitStatus, btnVars, pcGpio, pcDisp, exc, hwVars, navVars,
                   timeVars, updVars, srvVars, obsVars>>

MainPollDisplay == MainPoll("poll_display", pcDisp, "poll_button")

MainPollButton == MainPoll("poll_button", pcBtn, "check")

\* thread.join() returns once the thread is no longer alive.
MainJoin(here, pc, after) ==
    /\ pcMain = here
    /\ ~IsAlive(pc)
    /\ pcMain' = after
    /\ UNCHANGED <<success, exitStatus, kill_now, btnVars, pcGpio, pcDisp, exc,
                   hwVars, navVars, timeVars, updVars, srvVars, obsVars>>

MainJoinDisplay == MainJoin("join_display", pcDisp, "join_button")

MainJoinButton == MainJoin("join_button", pcBtn, "exit")

\* if not success: sys.exit(1).  The interpreter then waits for the threads
\* that are still alive before the process ends.
MainExit ==
    /\ pcMain = "exit"
    /\ ~IsAlive(pcDisp)
    /\ ~IsAlive(pcBtn)
    /\ pcMain' = "done"
    /\ exitStatus' = IF success THEN 0 ELSE 1
    /\ UNCHANGED <<success, kill_now, btnVars, pcGpio, pcDisp, exc, hwVars,
                   navVars, timeVars, updVars, srvVars, obsVars>>

----------------------------------------------------------------------------
(* ButtonMonitorThread.run                                                 *)

\* Assigning the two when_pressed handlers; gpiozero may raise.
BtnRegister ==
    /\ pcBtn = "register"
    /\ \E ok \in BOOLEAN : pcBtn' = IF ok THEN "loop" ELSE "errored"
    /\ UNCHANGED <<mainVars, kill_now, pcGpio, pcDisp, exc, hwVars, navVars,
                   timeVars, updVars, srvVars, obsVars>>

\* BtnLoop with the loop test left out: the thread never sees kill_now.
BtnLoopForever ==
    /\ pcBtn = "loop"
    /\ pcBtn' = "sleep"
    /\ UNCHANGED <<mainVars, kill_now, pcGpio, pcDisp, exc, hwVars, navVars,
                   timeVars, updVars, srvVars, obsVars>>

\* while not self.killer.kill_now
BtnLoop ==
    /\ pcBtn = "loop"
    /\ pcBtn' = IF kill_now THEN "stopped" ELSE "sleep"
    /\ UNCHANGED <<mainVars, kill_now, pcGpio, pcDisp, exc, hwVars, navVars,
                   timeVars, updVars, srvVars, obsVars>>

\* time.sleep(1)
BtnSleep ==
    /\ pcBtn = "sleep"
    /\ pcBtn' = "loop"
    /\ UNCHANGED <<mainVars, kill_now, pcGpio, pcDisp, exc, hwVars, navVars,
                   timeVars, updVars, srvVars, obsVars>>

----------------------------------------------------------------------------
(* get_metainfo, get_nb_apps, get_nb_screens                               *)

\* get_metainfo returns the document only when self.metainfo is None and the
\* answer is 200; it raises on another status, and with self.metainfo set it
\* returns None, on which the callers' subscripts raise.
MetainfoReturned(status) == metainfo = None /\ status = 200

\* The effect of one get_metainfo call on the server side: a GET of info.json
\* is sent exactly when self.metainfo is None.  self.metainfo is not assigned.
GetMetainfo(status) ==
    /\ IF metainfo = None
       THEN /\ refetched' = (refetched \/ infoOK)
            /\ infoOK' = (infoOK \/ status = 200)
       ELSE UNCHANGED <<infoOK, refetched>>
    /\ UNCHANGED <<serverInfo, metainfo>>

\* len(metainfo["apps"])
NbApps == Len(serverInfo)

\* metainfo["apps"][app]["nb_screens"]; app is a valid index
NbScreens(app) == serverInfo[app + 1]

ValidApp(app) == app \in 0 .. (NbApps - 1)

----------------------------------------------------------------------------
(* switch_to_next_app and switch_to_next_screen, run by thread t: "gpio"   *)
(* for the button handlers, "disp" for the automatic switch.               *)

PC(t) == IF t = "disp" THEN pcDisp ELSE pcGpio

Goto(t, pc) ==
    IF t = "disp" THEN pcDisp' = pc /\ UNCHANGED <<pcGpio, exc>>
    ELSE pcGpio' = pc /\ UNCHANGED <<pcDisp, exc>>

\* An exception leaves the method: in DisplayThread.run it reaches the
\* except and finally clauses; in a button handler it leaves the handler,
\* and the callback thread either survives it or ends.
Raise(t) ==
    IF t = "disp" THEN pcDisp' = "fin" /\ exc' = TRUE /\ UNCHANGED pcGpio
    ELSE pcGpio' \in {"idle", "dead"} /\ UNCHANGED <<pcDisp, exc>>

\* The method returns: the display loop goes on to its sleep, the callback
\* thread waits for the next edge.
Return(t) == Goto(t, IF t = "disp" THEN "sleep" ELSE "idle")

\* self.last_app_switch = time.time()
AppTime(t) ==
    /\ PC(t) = "app_time"
    /\ app_switch_age' = 0
    /\ Goto(t, "app_read")
    /\ UNCHANGED <<mainVars, kill_now, btnVars, hwVars, navVars,
                   online_check_age, updVars, srvVars, obsVars>>

\* the read of self.current_app in (self.current_app + 1)
AppRead(t) ==
    /\ PC(t) = "app_read"
    /\ navTmp' = [navTmp EXCEPT ![t] = current_app]
    /\ Goto(t, "app_write")
    /\ UNCHANGED <<mainVars, kill_now, btnVars, hwVars, current_app, current_screen_per_app,
                   force_update, timeVars, updVars, srvVars, obsVars>>

\* AppWrite with the modulo left out.
AppWriteNoWrap(t) ==
    /\ PC(t) = "app_write"
    /\ \E status \in Statuses :
        /\ GetMetainfo(status)
        /\ IF MetainfoReturned(status)
           THEN /\ current_app' = navTmp[t] + 1
                /\ Goto(t, "app_get")
           ELSE /\ UNCHANGED current_app
                /\ Raise(t)
    /\ navTmp' = [navTmp EXCEPT ![t] = 0]
    /\ UNCHANGED <<mainVars, kill_now, btnVars, hwVars, current_screen_per_app, force_update,
                   timeVars, updVars, obsVars>>

\* self.current_app = (... + 1) % self.get_nb_apps()
AppWrite(t) ==
    /\ PC(t) = "app_write"
    /\ \E status \in Statuses :
        /\ GetMetainfo(status)
        /\ IF MetainfoReturned(status)
           THEN /\ current_app' = (navTmp[t] + 1) % NbApps
                /\ Goto(t, "app_get")
           ELSE /\ UNCHANGED current_app
                /\ Raise(t)
    /\ navTmp' = [navTmp EXCEPT ![t] = 0]
    /\ UNCHANGED <<mainVars, kill_now, btnVars, hwVars, current_screen_per_app, force_update,
                   timeVars, updVars, obsVars>>

\* NavGet that always takes the default in place of the stored screen.
NavGetDefault(t, here, inc, next) ==
    /\ PC(t) = here
    /\ navTmp' = [navTmp EXCEPT ![t] = inc]
    /\ Goto(t, next)
    /\ UNCHANGED <<mainVars, kill_now, btnVars, hwVars, current_app, current_screen_per_app,
                   force_update, timeVars, updVars, srvVars, obsVars>>

\* self.current_screen_per_app.get(self.current_app, 0), plus inc
NavGet(t, here, inc, next) ==
    /\ PC(t) = here
    /\ navTmp' = [navTmp EXCEPT ![t] = Get(current_screen_per_app, current_app, 0) + inc]
    /\ Goto(t, next)
    /\ UNCHANGED <<mainVars, kill_now, btnVars, hwVars, current_app, current_screen_per_app,
                   force_update, timeVars, updVars, srvVars, obsVars>>

\* NavMod with the modulo left out.
NavModNoWrap(t, here, next) ==
    /\ PC(t) = here
    /\ \E status \in Statuses :
        /\ GetMetainfo(status)
        /\ IF MetainfoReturned(status) /\ ValidApp(current_app)
           THEN /\ UNCHANGED navTmp
                /\ Goto(t, next)
           ELSE /\ navTmp' = [navTmp EXCEPT ![t] = 0]
                /\ Raise(t)
    /\ UNCHANGED <<mainVars, kill_now, btnVars, hwVars, current_app, current_screen_per_app,
                   force_update, timeVars, updVars, obsVars>>

\* ... % self.get_nb_screens(self.current_app)
NavMod(t, here, next) ==
    /\ PC(t) = here
    /\ \E status \in Statuses :
        /\ GetMetainfo(status)
        /\ IF MetainfoReturned(status) /\ ValidApp(current_app)
           THEN /\ navTmp' = [navTmp EXCEPT ![t] = navTmp[t] % NbScreens(current_app)]
                /\ Goto(t, next)
           ELSE /\ navTmp' = [navTmp EXCEPT ![t] = 0]
                /\ Raise(t)
    /\ UNCHANGED <<mainVars, kill_now, btnVars, hwVars, current_app, current_screen_per_app,
                   force_update, timeVars, updVars, obsVars>>

\* self.current_screen_per_app[self.current_app] = ...
NavStore(t, here, next) ==
    /\ PC(t) = here
    /\ current_screen_per_app' = Put(current_screen_per_app, current_app, navTmp[t])
    /\ navTmp' = [navTmp EXCEPT ![t] = 0]
    /\ Goto(t, next)
    /\ UNCHANGED <<mainVars, kill_now, btnVars, hwVars, current_app,
                   force_update, timeVars, updVars, srvVars, obsVars>>

\* NavFlag with the assignment of force_update left out.
NavFlagUnset(t, here) ==
    /\ PC(t) = here
    /\ UNCHANGED force_update
    /\ navSinceStart' = TRUE
    /\ pendingNav' = TRUE
    /\ Return(t)
    /\ UNCHANGED <<mainVars, kill_now, btnVars, hwVars, current_app, current_screen_per_app,
                   navTmp, timeVars, updVars, srvVars>>

\* self.force_update = True, and the method returns
NavFlag(t, here) ==
    /\ PC(t) = here
    /\ force_update' = TRUE
    /\ navSinceStart' = TRUE
    /\ pendingNav' = TRUE
    /\ Return(t)
    /\ UNCHANGED <<mainVars, kill_now, btnVars, hwVars, current_app, current_screen_per_app,
                   navTmp, timeVars, updVars, srvVars>>

AppGet(t) == NavGet(t, "app_get", 0, "app_mod")

AppMod(t) == NavMod(t, "app_mod", "app_store")

AppStore(t) == NavStore(t, "app_store", "app_flag")

AppFlag(t) == NavFlag(t, "app_flag")

ScrGet(t) == NavGet(t, "scr_get", 1, "scr_mod")

ScrMod(t) == NavMod(t, "scr_mod", "scr_store")

ScrStore(t) == NavStore(t, "scr_store", "scr_flag")

ScrFlag(t) == NavFlag(t, "scr_flag")

\* The steps of the two methods.
NavStep(t) ==
    \/ AppTime(t)
    \/ AppRead(t)
    \/ AppWrite(t)
    \/ AppGet(t)
    \/ AppMod(t)
    \/ AppStore(t)
    \/ AppFlag(t)
    \/ ScrGet(t)
    \/ ScrMod(t)
    \/ ScrStore(t)
    \/ ScrFlag(t)

----------------------------------------------------------------------------
(* The gpiozero callback thread: button_left_pressed, button_right_pressed *)

Registered == pcBtn \in {"loop", "sleep", "stopped"}

\* A debounced edge on pin 20 calls switch_to_next_app.
LeftPressed ==
    /\ exitStatus = NoExit
    /\ Registered
    /\ pcGpio = "idle"
    /\ pcGpio' = "app_time"
    /\ UNCHANGED <<mainVars, kill_now, btnVars, pcDisp, exc, hwVars, navVars,
                   timeVars, updVars, srvVars, obsVars>>

\* A debounced edge on pin 16 calls switch_to_next_screen.
RightPressed ==
    /\ exitStatus = NoExit
    /\ Registered
    /\ pcGpio = "idle"
    /\ pcGpio' = "scr_get"
    /\ UNCHANGED <<mainVars, kill_now, btnVars, pcDisp, exc, hwVars, navVars,
                   timeVars, updVars, srvVars, obsVars>>

----------------------------------------------------------------------------
(* DisplayThread                                                           *)

\* ImagesDiffer with the comparison of the sizes left out.
ImagesDifferPixelsOnly(img1, img2) ==
    IF img1 = None \/ img2 = None THEN TRUE
    ELSE img1[2] # img2[2]

\* images_differ
ImagesDiffer(img1, img2) ==
    IF img1 = None \/ img2 = None THEN TRUE
    ELSE IF img1[1] # img2[1] THEN TRUE
    ELSE img1[2] # img2[2]

\* An exception propagates out of the loop body to the except and finally
\* clauses of run(); the locals of update() are gone.
DispCrash ==
    /\ pcDisp' = "fin"
    /\ exc' = TRUE
    /\ image' = None
    /\ reqApp' = 0
    /\ reqKey' = 0

\* rpi = epdconfig.RaspberryPi()
DispInitRpi ==
    /\ pcDisp = "init_rpi"
    /\ \E ok \in BOOLEAN :
        IF ok THEN /\ rpi' = "open"
                   /\ pcDisp' = "init_epd"
                   /\ UNCHANGED exc
        ELSE /\ pcDisp' = "fin"
             /\ exc' = TRUE
             /\ UNCHANGED rpi
    /\ UNCHANGED <<mainVars, kill_now, btnVars, pcGpio, nbExit, cycleOps,
                   navVars, timeVars, updVars, srvVars, obsVars>>

\* epd = epd7in5_V2.EPD(rpi)
DispInitEpd ==
    /\ pcDisp = "init_epd"
    /\ \E ok \in BOOLEAN :
        IF ok THEN pcDisp' = "loop" /\ UNCHANGED exc
        ELSE pcDisp' = "fin" /\ exc' = TRUE
    /\ UNCHANGED <<mainVars, kill_now, btnVars, pcGpio, hwVars, navVars,
                   timeVars, updVars, srvVars, obsVars>>

\* while not self.killer.kill_now
DispLoop ==
    /\ pcDisp = "loop"
    /\ pcDisp' = IF kill_now THEN "fin" ELSE "su_read"
    /\ cycleOps' = <<>>
    /\ UNCHANGED <<mainVars, kill_now, btnVars, pcGpio, exc, rpi, nbExit,
                   navVars, timeVars, updVars, srvVars, obsVars>>

\* DispShouldUpdate with "at least 60 seconds" in place of "more than".
DispShouldUpdateAtPeriod ==
    /\ pcDisp = "su_read"
    /\ pcDisp' = IF force_update THEN "su_clear"
                 ELSE IF online_check_age = NoCheck \/ online_check_age >= UpdatePeriod
                      THEN "upd_app"
                      ELSE "auto"
    /\ navSinceStart' = FALSE
    /\ UNCHANGED <<mainVars, kill_now, btnVars, pcGpio, exc, hwVars, navVars,
                   timeVars, updVars, srvVars, pendingNav>>

\* should_update: the tests of force_update and of last_online_check
DispShouldUpdate ==
    /\ pcDisp = "su_read"
    /\ pcDisp' = IF force_update THEN "su_clear"
                 ELSE IF online_check_age = NoCheck \/ online_check_age > UpdatePeriod
                      THEN "upd_app"
                      ELSE "auto"
    /\ navSinceStart' = FALSE
    /\ UNCHANGED <<mainVars, kill_now, btnVars, pcGpio, exc, hwVars, navVars,
                   timeVars, updVars, srvVars, pendingNav>>

\* DispClearFlag with the assignment left out: the flag stays set.
DispClearFlagKept ==
    /\ pcDisp = "su_clear"
    /\ UNCHANGED force_update
    /\ pcDisp' = "upd_app"
    /\ UNCHANGED <<mainVars, kill_now, btnVars, pcGpio, exc, hwVars,
                   current_app, current_screen_per_app, navTmp, timeVars, updVars, srvVars,
                   obsVars>>

\* should_update: self.force_update = False
DispClearFlag ==
    /\ pcDisp = "su_clear"
    /\ force_update' = FALSE
    /\ pcDisp' = "upd_app"
    /\ UNCHANGED <<mainVars, kill_now, btnVars, pcGpio, exc, hwVars,
                   current_app, current_screen_per_app, navTmp, timeVars, updVars, srvVars,
                   obsVars>>

\* update: self.current_app, the first argument of download_recent_image
DispReadApp ==
    /\ pcDisp = "upd_app"
    /\ reqApp' = current_app
    /\ pendingNav' = FALSE
    /\ pcDisp' = "upd_key"
    /\ UNCHANGED <<mainVars, kill_now, btnVars, pcGpio, exc, hwVars, navVars,
                   timeVars, last_image, image, reqKey, srvVars,
                   navSinceStart>>

\* update: self.current_app, the key of the second argument
DispReadKey ==
    /\ pcDisp = "upd_key"
    /\ reqKey' = current_app
    /\ pcDisp' = "upd_fetch"
    /\ UNCHANGED <<mainVars, kill_now, btnVars, pcGpio, exc, hwVars, navVars,
                   timeVars, last_image, image, reqApp, srvVars,
                   obsVars>>

\* update: self.current_screen_per_app.get(key, 0), download_recent_image and
\* self.last_online_check = time.time().  The GET ends in a transport error
\* (requests raises), in a status other than 200 (None), or in a bitmap.
DispFetch ==
    /\ pcDisp = "upd_fetch"
    /\ \/ /\ DispCrash
          /\ UNCHANGED online_check_age
       \/ /\ \E status \in Statuses :
                IF status = 200 THEN image' \in Bitmaps ELSE image' = None
          /\ online_check_age' = 0
          /\ pcDisp' = "upd_differ"
          /\ reqApp' = 0
          /\ reqKey' = 0
          /\ UNCHANGED exc
    /\ UNCHANGED <<mainVars, kill_now, btnVars, pcGpio, hwVars, navVars,
                   app_switch_age, last_image, srvVars, obsVars>>

\* update: if self.images_differ(self.last_image, image)
DispDiffer ==
    /\ pcDisp = "upd_differ"
    /\ IF ImagesDiffer(last_image, image)
       THEN pcDisp' = "disp_init" /\ UNCHANGED image
       ELSE pcDisp' = "auto" /\ image' = None
    /\ UNCHANGED <<mainVars, kill_now, btnVars, pcGpio, exc, hwVars, navVars,
                   timeVars, last_image, reqApp, reqKey, srvVars,
                   obsVars>>

\* DispEpdInit without the try/finally: a failing epd.init() leaves display
\* at once.
DispEpdInitNoFinally ==
    /\ pcDisp = "disp_init"
    /\ cycleOps' = Append(cycleOps, "init")
    /\ \E ok \in BOOLEAN :
        IF ok THEN pcDisp' = "disp_push" /\ UNCHANGED exc
        ELSE pcDisp' = "fin" /\ exc' = TRUE
    /\ UNCHANGED <<mainVars, kill_now, btnVars, pcGpio, rpi, nbExit, navVars,
                   timeVars, updVars, srvVars, obsVars>>

\* display: epd.init(); a failure goes to the finally clause of display
DispEpdInit ==
    /\ pcDisp = "disp_init"
    /\ cycleOps' = Append(cycleOps, "init")
    /\ \E ok \in BOOLEAN :
        IF ok THEN pcDisp' = "disp_push" /\ UNCHANGED exc
        ELSE pcDisp' = "disp_sleep" /\ exc' = TRUE
    /\ UNCHANGED <<mainVars, kill_now, btnVars, pcGpio, rpi, nbExit, navVars,
                   timeVars, updVars, srvVars, obsVars>>

\* display: Image.new, screen.paste(image, ...) and epd.display(...);
\* image.width raises when image is None, before anything is sent
DispPush ==
    /\ pcDisp = "disp_push"
    /\ pcDisp' = "disp_sleep"
    /\ IF image = None
       THEN exc' = TRUE /\ UNCHANGED cycleOps
       ELSE /\ cycleOps' = Append(cycleOps, "display")
            /\ \E ok \in BOOLEAN : exc' = ~ok
    /\ UNCHANGED <<mainVars, kill_now, btnVars, pcGpio, rpi, nbExit, navVars,
                   timeVars, updVars, srvVars, obsVars>>

\* display: finally epd.sleep(); then the pending exception, or one raised
\* by sleep, leaves update()
DispEpdSleep ==
    /\ pcDisp = "disp_sleep"
    /\ cycleOps' = Append(cycleOps, "sleep")
    /\ \E ok \in BOOLEAN :
        IF ok /\ ~exc
        THEN pcDisp' = "upd_store" /\ UNCHANGED <<exc, image, reqApp, reqKey>>
        ELSE DispCrash
    /\ UNCHANGED <<mainVars, kill_now, btnVars, pcGpio, rpi, nbExit, navVars,
                   timeVars, last_image, srvVars, obsVars>>

\* update: self.last_image = image
DispStore ==
    /\ pcDisp = "upd_store"
    /\ last_image' = image
    /\ image' = None
    /\ pcDisp' = "auto"
    /\ UNCHANGED <<mainVars, kill_now, btnVars, pcGpio, exc, hwVars, navVars,
                   timeVars, reqApp, reqKey, srvVars, obsVars>>

\* should_switch_to_next_app_automatically
DispAuto ==
    /\ pcDisp = "auto"
    /\ pcDisp' = IF app_switch_age > SwitchPeriod THEN "app_time" ELSE "sleep"
    /\ UNCHANGED <<mainVars, kill_now, btnVars, pcGpio, exc, hwVars, navVars,
                   timeVars, updVars, srvVars, obsVars>>

\* time.sleep(1)
DispSleep ==
    /\ pcDisp = "sleep"
    /\ pcDisp' = "loop"
    /\ UNCHANGED <<mainVars, kill_now, btnVars, pcGpio, exc, hwVars, navVars,
                   timeVars, updVars, srvVars, obsVars>>

\* except: log and re-raise; finally: rpi.module_exit(cleanup=True), which
\* itself raises when rpi was never bound
DispFinally ==
    /\ pcDisp = "fin"
    /\ IF rpi = "unbound"
       THEN /\ pcDisp' = "errored"
            /\ UNCHANGED <<rpi, nbExit>>
       ELSE /\ rpi' = "closed"
            /\ nbExit' = nbExit + 1
            /\ pcDisp' = IF exc THEN "errored" ELSE "stopped"
    /\ exc' = FALSE
    /\ UNCHANGED <<mainVars, kill_now, btnVars, pcGpio, cycleOps, navVars,
                   timeVars, updVars, srvVars, obsVars>>

----------------------------------------------------------------------------
(* The complete program                                                    *)

Main ==
    \/ MainSetup
    \/ MainStartDisplay
    \/ MainStartButton
    \/ MainCheck
    \/ MainSleep
    \/ MainPollDisplay
    \/ MainPollButton
    \/ MainJoinDisplay
    \/ MainJoinButton
    \/ MainExit

Button ==
    \/ BtnRegister
    \/ BtnLoop
    \/ BtnSleep

Display ==
    \/ DispInitRpi
    \/ DispInitEpd
    \/ DispLoop
    \/ DispShouldUpdate
    \/ DispClearFlag
    \/ DispReadApp
    \/ DispReadKey
    \/ DispFetch
    \/ DispDiffer
    \/ DispEpdInit
    \/ DispPush
    \/ DispEpdSleep
    \/ DispStore
    \/ DispAuto
    \/ DispSleep
    \/ DispFinally
    \/ NavStep("disp")

Gpio ==
    \/ LeftPressed
    \/ RightPressed
    \/ NavStep("gpio")

\* The service while no button is pressed.
Next ==
    \/ Main
    \/ Button
    \/ Display
    \/ Signal
    \/ Tick

Spec == Init /\ [][Next]_vars

\* The threads are scheduled fairly and every call they make returns; the
\* signal, the clock and the outcome of each call are the environment's.
FairSpec ==
    /\ Spec
    /\ WF_vars(Main)
    /\ WF_vars(Button)
    /\ WF_vars(Display)

\* The state once main() has started both threads and the handlers are
\* registered, for each document the server may hold.
Started ==
    /\ pcMain = "check"
    /\ success = TRUE
    /\ exitStatus = NoExit
    /\ kill_now = FALSE
    /\ pcBtn = "loop"
    /\ pcGpio = "idle"
    /\ pcDisp = "init_rpi"
    /\ exc = FALSE
    /\ rpi = "unbound"
    /\ nbExit = 0
    /\ cycleOps = <<>>
    /\ current_app = 0
    /\ current_screen_per_app = EmptyDict
    /\ metainfo = None
    /\ force_update = FALSE
    /\ last_image = None
    /\ online_check_age = NoCheck
    /\ app_switch_age = 0
    /\ image = None
    /\ reqApp = 0
    /\ reqKey = 0
    /\ navTmp = [t \in Threads |-> 0]
    /\ serverInfo \in Topologies
    /\ infoOK = FALSE
    /\ refetched = FALSE
    /\ navSinceStart = FALSE
    /\ pendingNav = FALSE

\* Button handlers alone, one at a time: the display thread has not run yet.
NavNext == Gpio

NavSpec == Started /\ [][NavNext]_vars

\* The display thread and the button handlers interleaved, no shutdown.
ConcNext ==
    \/ Display
    \/ Gpio
    \/ Tick

ConcInit == Started /\ serverInfo = ServedInfo

ConcSpec == ConcInit /\ [][ConcNext]_vars

\* Clock steps of exactly one period, which bring the ages onto the two
\* thresholds before they pass them.
PeriodDelays == {UpdatePeriod, SwitchPeriod}

\* The wall clock advances by one of the periods.
TickPeriod ==
    /\ exitStatus = NoExit
    /\ \E d \in PeriodDelays :
        /\ online_check_age' = IF online_check_age = NoCheck THEN NoCheck
                               ELSE Min(online_check_age + d, UpdatePeriod + 1)
        /\ app_switch_age' = Min(app_switch_age + d, SwitchPeriod + 1)
    /\ UNCHANGED <<mainVars, kill_now, btnVars, pcGpio, pcDisp, exc, hwVars,
                   navVars, updVars, srvVars, obsVars>>

\* The display thread alone against the finer clock.
TimerNext ==
    \/ Display
    \/ TickPeriod

TimerSpec == ConcInit /\ [][TimerNext]_vars

\* Button handlers alone while time passes between their steps.
NavClockNext ==
    \/ Gpio
    \/ Tick

NavClockSpec == Started /\ [][NavClockNext]_vars

\* The whole service with button presses, over a span shorter than the
\* update period, against the topology [1, 3].
PressInit == Init /\ serverInfo = ServedInfo

PressNext ==
    \/ Main
    \/ Button
    \/ Display
    \/ Gpio
    \/ Signal

PressSpec == PressInit /\ [][PressNext]_vars

----------------------------------------------------------------------------
(* Properties                                                              *)

Terminated(pc) == pc \in {"stopped", "errored"}

RenderCycle == <<"init", "display", "sleep">>

\* C1: when the process has ended and both workers stopped cleanly (each left
\* its loop on kill_now, neither raised), the exit status is 0.
C1_CleanShutdownExitsZero ==
    (exitStatus # NoExit /\ pcDisp = "stopped" /\ pcBtn = "stopped")
        => exitStatus = 0

\* C2: when the process has ended and a worker had terminated through an
\* unhandled error, the exit status is 1.
C2_CrashExitsOne ==
    (exitStatus # NoExit /\ (pcDisp = "errored" \/ pcBtn = "errored"))
        => exitStatus = 1

\* C3: once the image fetch of a cycle has returned None, the cycle makes no
\* call on the panel, keeps the last rendered frame, and the display thread
\* goes on to the rest of its loop.
C3_FailedFetchNonFatal ==
    [][(pcDisp = "upd_differ" /\ image = None)
          => /\ pcDisp' \in {"upd_differ", "auto"}
             /\ cycleOps' = cycleOps
             /\ last_image' = last_image]_vars

\* C4: with handlers run one at a time against a fixed document, current_app
\* is a valid app index, the screen of the current app is below its screen
\* count, and every stored screen belongs to a valid app and is below that
\* app's screen count.
C4_NavigationValid ==
    /\ ValidApp(current_app)
    /\ Get(current_screen_per_app, current_app, 0) \in 0 .. (NbScreens(current_app) - 1)
    /\ \A a \in DOMAIN current_screen_per_app :
          ValidApp(a) /\ current_screen_per_app[a] \in 0 .. (NbScreens(a) - 1)

\* C4 witness: a handler has returned with the last screen of app 1 stored,
\* one advance-screen away from wrapping.
C4_Witness ==
    /\ pcGpio = "idle"
    /\ force_update
    /\ current_app = 1
    /\ 1 \in DOMAIN current_screen_per_app
    /\ NbScreens(1) > 1
    /\ current_screen_per_app[1] = NbScreens(1) - 1

\* C5: when the display thread has ended, by whichever path, module_exit has
\* run exactly once.
C5_ReleasedOnEveryExit ==
    Terminated(pcDisp) => nbExit = 1

\* C6: if the display thread has died of an exception while kill_now is not
\* set and the button thread is in its loop, the process eventually exits
\* with status 1.
C6_DeathLeadsToFailureExit ==
    (pcDisp = "errored" /\ ~kill_now /\ pcBtn \in {"loop", "sleep"})
        ~> (exitStatus = 1)

\* C7, as stated: when kill_now is set and the supervisor has finished, both
\* of the workers it started are Stopped.
C7_WorkersReachStopped ==
    (kill_now /\ pcMain = "done" /\ pcDisp # "new" /\ pcBtn # "new")
        => (pcDisp = "stopped" /\ pcBtn = "stopped")

\* C7, amended: kill_now is never cleared; a worker becomes Stopped only from
\* its loop test with kill_now set; and once kill_now is set the supervisor
\* eventually finishes with no worker alive.
C7_ShutdownTerminates ==
    /\ [][kill_now => kill_now']_vars
    /\ [][(pcBtn' = "stopped" /\ pcBtn # "stopped")
             => (pcBtn = "loop" /\ kill_now)]_vars
    /\ [][(pcDisp' = "fin" /\ pcDisp # "fin" /\ ~exc')
             => (pcDisp = "loop" /\ kill_now)]_vars
    /\ kill_now ~> (pcMain = "done" /\ ~IsAlive(pcDisp) /\ ~IsAlive(pcBtn))

\* C7 witness: a signalled shutdown has completed with both workers Stopped.
C7_Witness ==
    /\ kill_now
    /\ pcMain = "done"
    /\ pcDisp = "stopped"
    /\ pcBtn = "stopped"

\* C8, as stated: when should_update is about to test force_update and a
\* switch_to_* has completed since the previous test, force_update is set.
C8_NextCycleSeesFlag ==
    (pcDisp = "su_read" /\ navSinceStart) => force_update

\* C8, amended: while the display thread runs, after a switch_to_* has
\* completed either force_update is still set or should_update has already
\* returned true and update() has yet to read the navigation state.
C8_NavigationFetched ==
    (pendingNav /\ pcDisp \notin {"fin", "stopped", "errored"})
        => (force_update \/ pcDisp \in {"su_clear", "upd_app"})

\* C8 witness: a handler completed between should_update's test and its
\* clearing of force_update; update() is about to read the new state.
C8_Witness ==
    /\ pcDisp = "upd_app"
    /\ pcGpio = "idle"
    /\ navSinceStart
    /\ pendingNav
    /\ ~force_update

\* C9: info.json is never requested again after a 200 answer to it.
C9_InfoFetchedOnce == ~refetched

\* C10: with a bitmap fetched, display() is entered exactly when the bitmap is
\* not the last rendered frame; the skipping path makes no panel call and
\* keeps last_image; panel calls are made only inside display(); and
\* last_image changes only to the fetched bitmap after one complete
\* init, display, sleep sequence that raised nothing.
C10_WriteOnlyOnChange ==
    /\ [][(pcDisp = "upd_differ" /\ pcDisp' # "upd_differ" /\ image # None)
             => ((pcDisp' = "disp_init") <=> (image # last_image))]_vars
    /\ [][(pcDisp = "upd_differ" /\ pcDisp' = "auto")
             => (cycleOps' = <<>> /\ last_image' = last_image)]_vars
    /\ [][(cycleOps' # cycleOps /\ cycleOps' # <<>>)
             => pcDisp \in {"disp_init", "disp_push", "disp_sleep"}]_vars
    /\ [][(last_image' # last_image)
             => /\ pcDisp = "upd_store"
                /\ last_image' = image
                /\ image # None
                /\ ~exc
                /\ cycleOps = RenderCycle]_vars

\* C10 witness: a second, different bitmap has been rendered and is about to
\* replace the last rendered frame.
C10_Witness ==
    /\ pcDisp = "upd_store"
    /\ last_image # None
    /\ image # last_image
    /\ cycleOps = RenderCycle

\* C11: at every moment of the interleaved button handlers and automatic
\* switch, current_app is a valid app index and every stored screen is below
\* the screen count of the app it is stored under.
C11_NavigationValidConcurrent ==
    /\ ValidApp(current_app)
    /\ \A a \in DOMAIN current_screen_per_app :
          /\ ValidApp(a)
          /\ current_screen_per_app[a] \in 0 .. (NbScreens(a) - 1)

\* C12: the image request update() is about to send names a screen that
\* exists in the app it names.
C12_FetchFromSnapshot ==
    (pcDisp = "upd_fetch" /\ ValidApp(reqApp))
        => Get(current_screen_per_app, reqKey, 0) < NbScreens(reqApp)

\* C13: every write of current_app by switch_to_next_app moves the index one
\* past its value at that moment, so that k advances add up to k.
C13_NoAdvanceLost ==
    [][(\/ (pcDisp = "app_write" /\ pcDisp' = "app_get")
        \/ (pcGpio = "app_write" /\ pcGpio' = "app_get"))
          => current_app' = (current_app + 1) % NbApps]_vars

\* C14: the panel calls of a loop iteration are init first, at most one
\* display, and sleep last; sleep follows every init, also one that failed
\* or was followed by a failure; outside display() the last call is sleep.
C14_RenderSequencing ==
    /\ pcDisp = "disp_init" => cycleOps = <<>>
    /\ pcDisp = "disp_push" => cycleOps = <<"init">>
    /\ pcDisp = "disp_sleep" => cycleOps \in {<<"init">>, <<"init", "display">>}
    /\ pcDisp \notin {"disp_init", "disp_push", "disp_sleep"}
          => cycleOps \in {<<>>, <<"init", "sleep">>, RenderCycle}

\* C14 witness: a render cycle failed before the buffer was pushed, and the
\* panel was still put to sleep before the exception left display().
C14_Witness ==
    /\ pcDisp = "fin"
    /\ exc
    /\ cycleOps = <<"init", "sleep">>

\* C15: a should_update call that finds force_update set returns true and
\* leaves it cleared; a call with no switch_to_* completed since the call
\* before finds the flag cleared and returns true only on the timer, that
\* is with no fetch made yet or more than 60 seconds after the last one.
C15_FlagConsumedOnce ==
    /\ [][(pcDisp = "su_read" /\ pcDisp' # "su_read" /\ force_update)
             => pcDisp' = "su_clear"]_vars
    /\ [][(pcDisp = "su_clear" /\ pcDisp' # "su_clear")
             => (pcDisp' = "upd_app" /\ ~force_update')]_vars
    /\ [](pcDisp = "su_read" /\ ~navSinceStart => ~force_update)
    /\ [][(pcDisp = "su_read" /\ ~navSinceStart /\ pcDisp' \in {"su_clear", "upd_app"})
             => (online_check_age = NoCheck \/ online_check_age > UpdatePeriod)]_vars

\* C15 witness: an automatic switch set the flag, one call consumed it, and
\* the next call comes exactly 60 seconds after the fetch with no new switch.
C15_Witness ==
    /\ pcDisp = "su_read"
    /\ current_app = 1
    /\ 1 \in DOMAIN current_screen_per_app
    /\ ~navSinceStart
    /\ ~force_update
    /\ online_check_age = UpdatePeriod

\* C16: last_online_check is set whenever download_recent_image returns, with
\* a bitmap or with None; and with force_update not set should_update returns
\* true exactly when no fetch was made yet or the last one is more than 60
\* seconds old.
C16_AttemptCadence ==
    /\ [][(pcDisp = "upd_fetch" /\ pcDisp' = "upd_differ")
             => online_check_age' = 0]_vars
    /\ [][(pcDisp = "su_read" /\ pcDisp' # "su_read" /\ ~force_update)
             => ((pcDisp' = "upd_app")
                   <=> (online_check_age = NoCheck \/ online_check_age > UpdatePeriod))]_vars
    /\ [][(online_check_age' = 0 /\ online_check_age # 0)
             => (pcDisp = "upd_fetch" /\ pcDisp' = "upd_differ")]_vars

\* C16 witness: a fetch started by the timer alone (no switch has ever set
\* force_update), after an earlier rendered one, returned None and was stamped.
C16_Witness ==
    /\ pcDisp = "upd_differ"
    /\ image = None
    /\ last_image # None
    /\ online_check_age = 0
    /\ current_app = 0
    /\ current_screen_per_app = EmptyDict

\* C17: when the display thread starts an automatic switch, the last switch,
\* automatic or by the left button, is more than 3600 seconds old.
C17_AutoAdvanceOncePerWindow ==
    pcDisp = "app_time" => app_switch_age > SwitchPeriod

\* C18: one switch_to_next_app by a button handler stamps the switch time,
\* moves current_app to (current_app + 1) mod the number of apps, stores for
\* the new app its previously stored screen (0 if none) mod that app's number
\* of screens, sets force_update, and changes no other app's stored screen.
C18_AdvanceApp ==
    [][/\ (pcGpio = "app_time" /\ pcGpio' = "app_read")
             => (app_switch_age' = 0 /\ UNCHANGED navVars)
       /\ (pcGpio = "app_write" /\ pcGpio' = "app_get")
             => /\ current_app' = (current_app + 1) % NbApps
                /\ UNCHANGED <<current_screen_per_app, force_update>>
       /\ (pcGpio = "app_store" /\ pcGpio' = "app_flag")
             => /\ current_screen_per_app' =
                       Put(current_screen_per_app, current_app,
                           Get(current_screen_per_app, current_app, 0)
                               % NbScreens(current_app))
                /\ \A a \in DOMAIN current_screen_per_app :
                       a # current_app
                           => current_screen_per_app'[a] = current_screen_per_app[a]
                /\ UNCHANGED current_app
       /\ (pcGpio = "app_flag" /\ pcGpio' = "idle")
             => /\ force_update'
                /\ UNCHANGED <<current_app, current_screen_per_app>>
       /\ (pcGpio \in {"app_read", "app_get", "app_mod"} /\ pcGpio' # pcGpio)
             => UNCHANGED <<current_app, current_screen_per_app, force_update>>
      ]_vars

\* C18 witness: with screen counts [1, 3], left, right, left from app 0
\* screen 0 has ended at app 0 screen 0 with screen 1 kept for app 1, some
\* time after the last switch.
C18_Witness ==
    /\ serverInfo = <<1, 3>>
    /\ pcGpio = "idle"
    /\ force_update
    /\ current_app = 0
    /\ current_screen_per_app = (0 :> 0 @@ 1 :> 1)
    /\ app_switch_age > 0

\* C19: one switch_to_next_screen by a button handler stores for current_app
\* its stored screen (0 if none) plus one, mod that app's number of screens,
\* and sets force_update; it changes neither current_app, nor the time of the
\* last switch, nor another app's stored screen.  A switch_to_next_app that
\* lands on an app with a stored screen leaves that screen as it was.
C19_AdvanceScreen ==
    [][/\ (pcGpio = "scr_store" /\ pcGpio' = "scr_flag")
             => /\ current_screen_per_app' =
                       Put(current_screen_per_app, current_app,
                           (Get(current_screen_per_app, current_app, 0) + 1)
                               % NbScreens(current_app))
                /\ \A a \in DOMAIN current_screen_per_app :
                       a # current_app
                           => current_screen_per_app'[a] = current_screen_per_app[a]
                /\ UNCHANGED <<current_app, app_switch_age, force_update>>
       /\ (pcGpio = "scr_flag" /\ pcGpio' = "idle")
             => /\ force_update'
                /\ UNCHANGED <<current_app, app_switch_age, current_screen_per_app>>
       /\ (pcGpio \in {"scr_get", "scr_mod"} /\ pcGpio' # pcGpio)
             => UNCHANGED <<current_app, app_switch_age, current_screen_per_app,
                            force_update>>
       /\ (pcGpio = "app_store" /\ pcGpio' = "app_flag")
             => \A a \in DOMAIN current_screen_per_app :
                    current_screen_per_app'[a] = current_screen_per_app[a]
      ]_vars

\* C19 witness: with screen counts [1, 3], switch_to_next_app has just landed
\* on app 1 again, after app 0, and stored for it the screen 2 chosen there
\* before; the last switch is some time ago.
C19_Witness ==
    /\ serverInfo = <<1, 3>>
    /\ pcGpio = "app_flag"
    /\ current_app = 1
    /\ current_screen_per_app = (0 :> 0 @@ 1 :> 2)

\* C20: when get_metainfo fails in a switch called by a button handler, the
\* exception ends ButtonMonitorThread as a crashed thread, which main then
\* sees at its next poll.
C20_HandlerFailureEndsButtonThread ==
    [][(pcGpio \in {"app_write", "app_mod", "scr_mod"}
          /\ pcGpio' \in {"idle", "dead"})
             => pcBtn' = "errored"]_vars

====
